---- MODULE Spec2Model ----
(***************************************************************************)
(* Wind-speed variability notebook (geospatial_task.ipynb): the nearest    *)
(* site lookup (nearest_site, multiple_site_index), the extraction of one  *)
(* site's column from the .h5 store (h5_extractor), the decorated frame    *)
(* (windspeed_point_df_maker) and the temporal aggregation (time_subset).  *)
(*                                                                         *)
(* Conventions.  Site indices are 0-based as in the code; TLA+ sequences   *)
(* are 1-based, so site i is coords[i + 1].  Coordinates are integers (a   *)
(* grid of half-degrees); distances are squared Euclidean distances, which *)
(* is what cKDTree compares for p = 2.  Decoded values are exact rationals *)
(* <<num, den>>; den = 0 encodes the IEEE results of a division by zero:   *)
(* <<1, 0>> = inf, <<-1, 0>> = -inf, <<0, 0>> = NaN.                       *)
(***************************************************************************)
EXTENDS Integers, Sequences, FiniteSets, TLC

VARIABLES coords,         \* raw_h5['coordinates'][...]: sequence of <<lat, lon>>
          raw,            \* raw_h5['windspeed_100m']: [data, scale_factor]
          time_index,     \* raw_h5['time_index']: hours since the epoch, ascending
          windspeed_100,  \* the module-level name windspeed_100
          POI_indx,       \* per pipeline: the site index in use
          pc,             \* per pipeline: position in the pipeline
          ser,            \* per pipeline: the series h5_extractor returned to it
          df,             \* per pipeline: the decorated frame
          table,          \* per pipeline: the result of time_subset
          period,         \* per pipeline: the period passed to time_subset
          err,            \* per pipeline: the exception that ended it, or "none"
          printed,        \* per pipeline: the line time_subset printed, or ""
          POI_df,         \* the caller's frame handed to multiple_site_index
          ret             \* the last function-level call and its outcome

vars == <<coords, raw, time_index, windspeed_100, POI_indx, pc, ser, df,
          table, period, err, printed, POI_df, ret>>

-----------------------------------------------------------------------------
(* Bounds of the model *)

MaxSites == 2       \* small coordinate arrays have 0..MaxSites sites
MaxCoord == 1       \* small arrays take latitudes from {0, 2, .., 2 * MaxCoord}
BigN     == 17      \* the large arrays have LeafSize + 1 .. BigN sites
MaxBatch == 2       \* POI_df has 0..MaxBatch rows
NSamples == 3       \* entries of the time axis in the pipeline model
QuerySpan == 5      \* large arrays are queried within QuerySpan of the middle
SampleStep == 24    \* hours between the samples of a year-long time axis
SpanYears == 2      \* years covered by the longest time axis

(* Program constants *)

LeafSize == 16      \* cKDTree(coord_array): default leafsize

-----------------------------------------------------------------------------
(* Integer helpers *)

Abs(x) == IF x < 0 THEN -x ELSE x

Max2(a, b) == IF a >= b THEN a ELSE b

SetMin(S) == CHOOSE m \in S : \A y \in S : m <= y

SetMax(S) == CHOOSE m \in S : \A y \in S : m >= y

-----------------------------------------------------------------------------
(* scipy.spatial.cKDTree as used by nearest_site *)

NDim == {0, 1}

\* coordinate d (0 = lat, 1 = lon) of site i (0-based)
Coord(data, i, d) == data[i + 1][d + 1]

\* variant of Dist2: the longitude is left out of the distance
Dist2_lat_only(data, i, x) ==
    (Coord(data, i, 0) - x[1]) * (Coord(data, i, 0) - x[1])

\* squared Euclidean distance in raw degree space from site i to x
Dist2(data, i, x) ==
    (Coord(data, i, 0) - x[1]) * (Coord(data, i, 0) - x[1])
  + (Coord(data, i, 1) - x[2]) * (Coord(data, i, 1) - x[2])

Leaf(S, ord) == [leaf |-> TRUE, idx |-> S, ordered |-> ord]

\* the dimension with the largest spread; the first one on equal spreads
SplitDim(data, S) ==
    LET spread(d) == SetMax({Coord(data, i, d) : i \in S})
                   - SetMin({Coord(data, i, d) : i \in S})
    IN  IF spread(1) > spread(0) THEN 1 ELSE 0

\* the value at position k (0-based) of the sites of S sorted along d
\* (equal values ordered by index)
NthValue(data, S, d, k) ==
    LET before(i) == {j \in S : \/ Coord(data, j, d) < Coord(data, i, d)
                                \/ /\ Coord(data, j, d) = Coord(data, i, d)
                                   /\ j < i}
        m == CHOOSE i \in S : Cardinality(before(i)) = k
    IN  Coord(data, m, d)

\* tree = cKDTree(coord_array): balanced_tree, compact_nodes, leafsize 16.
\* A node of at most LeafSize sites is a leaf.  The sites of the root keep
\* the order of the array; the order inside a node produced by a partition
\* is whatever std::nth_element / std::partition left (ordered = FALSE).
RECURSIVE build(_, _, _)
build(data, S, isRoot) ==
    IF Cardinality(S) <= LeafSize THEN Leaf(S, isRoot)
    ELSE
      LET d     == SplitDim(data, S)
          lo    == SetMin({Coord(data, i, d) : i \in S})
          hi    == SetMax({Coord(data, i, d) : i \in S})
          split == NthValue(data, S, d, Cardinality(S) \div 2)
          below == {i \in S : Coord(data, i, d) < split}
          \* slide: no site below the median value, move one minimal site over
          less  == IF below = {}
                      THEN {SetMin({i \in S : Coord(data, i, d) = lo})}
                      ELSE below
      IN  IF hi = lo THEN Leaf(S, isRoot)
          ELSE [leaf |-> FALSE, dim |-> d, split |-> split,
                less |-> build(data, less, FALSE),
                greater |-> build(data, S \ less, FALSE)]

cKDTree(data) == build(data, 0..(Len(data) - 1), TRUE)

\* squared distance from x to the bounding box of all sites, per dimension
RootSide(data, x) ==
    [d \in NDim |->
        IF Len(data) = 0 THEN 0
        ELSE LET lo == SetMin({Coord(data, i, d) : i \in 0..(Len(data) - 1)})
                 hi == SetMax({Coord(data, i, d) : i \in 0..(Len(data) - 1)})
                 g  == Max2(0, Max2(x[d + 1] - hi, lo - x[d + 1]))
             IN  g * g]

\* best = <<d2, i>>: the neighbour found so far; d2 = -1 is "none yet"
\* (distance_upper_bound = inf)
NoBest == <<-1, -1>>

Below(d2, best) == best[1] = -1 \/ d2 < best[1]

NotAbove(d2, best) == best[1] = -1 \/ d2 <= best[1]

\* tree.query(x), k = 1, eps = 0, p = 2: the set of positions the search can
\* return.  A leaf is scanned in its stored order and a site replaces the
\* current neighbour only when strictly closer; an inner node continues into
\* the child on x's side and queues the other child when its minimal
\* distance does not exceed the current bound; queued nodes are taken in
\* order of minimal distance until the queue is empty or the nearest queued
\* node lies beyond the bound.  A missing neighbour is reported as n.
RECURSIVE searchNode(_, _, _, _, _, _)
RECURSIVE searchPop(_, _, _, _)

searchNode(data, x, node, sd, pending, best) ==
    IF node.leaf THEN
        IF node.idx = {} THEN searchPop(data, x, pending, best)
        ELSE
          LET m    == SetMin({Dist2(data, i, x) : i \in node.idx})
              cand == {i \in node.idx : Dist2(data, i, x) = m}
              new  == IF ~Below(m, best) THEN {best}
                      ELSE IF node.ordered THEN {<<m, SetMin(cand)>>}
                      ELSE {<<m, i>> : i \in cand}
          IN  UNION {searchPop(data, x, pending, b) : b \in new}
    ELSE
        IF ~NotAbove(sd[0] + sd[1], best)
        THEN {IF best[1] = -1 THEN Len(data) ELSE best[2]}
        ELSE
          LET d     == node.dim
              g     == x[d + 1] - node.split
              near  == IF x[d + 1] < node.split THEN node.less ELSE node.greater
              far   == IF x[d + 1] < node.split THEN node.greater ELSE node.less
              fsd   == [sd EXCEPT ![d] = g * g]
              queue == IF NotAbove(fsd[0] + fsd[1], best)
                          THEN Append(pending, [node |-> far, sd |-> fsd])
                          ELSE pending
          IN  searchNode(data, x, near, sd, queue, best)

searchPop(data, x, pending, best) ==
    IF pending = <<>> THEN {IF best[1] = -1 THEN Len(data) ELSE best[2]}
    ELSE
      LET mind(k) == pending[k].sd[0] + pending[k].sd[1]
          m       == SetMin({mind(k) : k \in 1..Len(pending)})
          first   == {k \in 1..Len(pending) : mind(k) = m}
          rest(k) == SubSeq(pending, 1, k - 1) \o SubSeq(pending, k + 1, Len(pending))
      IN  IF ~NotAbove(m, best)
          THEN {IF best[1] = -1 THEN Len(data) ELSE best[2]}
          ELSE UNION {searchNode(data, x, pending[k].node, pending[k].sd,
                                 rest(k), best) : k \in first}

query(data, tree, x) == searchNode(data, x, tree, RootSide(data, x), <<>>, NoBest)

\* def nearest_site(coord_array, lat_coord, lon_coord): the positions the
\* call can return
nearest_site(coord_array, lat_coord, lon_coord) ==
    LET tree    == cKDTree(coord_array)
        lat_lon == <<lat_coord, lon_coord>>
    IN  query(coord_array, tree, lat_lon)

-----------------------------------------------------------------------------
(* multiple_site_index *)

\* variant of RenameColumns: the frame is also given a fresh index 1..n
RenameColumns_reindexed(frame) ==
    [frame EXCEPT !.columns = <<"lat", "lon">>,
                  !.index = [k \in 1..Len(frame.index) |-> k]]

\* POI_df.columns = ['lat', 'lon']: relabels the caller's frame in place
RenameColumns(frame) == [frame EXCEPT !.columns = <<"lat", "lon">>]

\* results[ind] on a DataFrame: the column labelled ind, a KeyError when the
\* frame has no such column; calling the column that is found is a TypeError
ColumnCall(results, ind) ==
    IF \E k \in 1..Len(results.columns) : results.columns[k] = ind
       THEN "TypeError" ELSE "KeyError"

\* for ind in POI_df.index: ... from position k of the index on; results is
\* the empty DataFrame made before the loop and is never given a column.
\* built counts the trees made: nearest_site makes one in every iteration
RECURSIVE msi_loop(_, _, _, _)
msi_loop(frame, coord_array, k, results) ==
    IF k > Len(frame.index)
       THEN {[out |-> results.columns, err |-> "none", built |-> k - 1]}
    ELSE
      LET ind == frame.index[k]
          lat == frame.rows[k][1]
          lon == frame.rows[k][2]
      IN  UNION { {[out |-> <<>>, err |-> ColumnCall(results, ind), built |-> k]}
                  : POI_i \in nearest_site(coord_array, lat, lon) }

\* def multiple_site_index(POI_df, coord_array) of geospatial_task.ipynb:
\* the outcomes of the call (the frame is relabelled before the loop runs)
multiple_site_index(frame, coord_array) ==
    msi_loop(RenameColumns(frame), coord_array, 1, [columns |-> <<>>])

\* the draft kept in archive/tech_task.qmd: results = [] ... results.append
RECURSIVE msi_archive_loop(_, _, _, _)
msi_archive_loop(frame, coord_array, k, results) ==
    IF k > Len(frame.index) THEN {[out |-> results, err |-> "none", built |-> k - 1]}
    ELSE
      LET lat == frame.rows[k][1]
          lon == frame.rows[k][2]
      IN  UNION { msi_archive_loop(frame, coord_array, k + 1, Append(results, POI_i))
                  : POI_i \in nearest_site(coord_array, lat, lon) }

multiple_site_index_archive(frame, coord_array) ==
    msi_archive_loop(RenameColumns(frame), coord_array, 1, <<>>)

-----------------------------------------------------------------------------
(* Inputs of the lookup model *)

SiteVals == {2 * c : c \in 0..MaxCoord}

RECURSIVE SeqsUpTo(_, _)
SeqsUpTo(S, n) ==
    IF n = 0 THEN {<<>>}
    ELSE LET prev == SeqsUpTo(S, n - 1)
         IN  prev \cup {Append(s, e) : s \in {t \in prev : Len(t) = n - 1}, e \in S}

\* small arrays: sites on two longitudes, repeated coordinates included
SmallArrays == SeqsUpTo(SiteVals \X {0, 2}, MaxSites)

\* arrays large enough for the tree to split: sites along a line of
\* latitudes, in ascending or descending index order, on one or two longitudes
BigArrays ==
    { [i \in 1..n |-> << IF rev THEN 2 * (n - i) ELSE 2 * (i - 1),
                         IF zig THEN 2 * (i % 2) ELSE 0 >>]
      : n \in (LeafSize + 1)..BigN, rev \in BOOLEAN, zig \in BOOLEAN }

CoordArrays == SmallArrays \cup BigArrays

\* query points: around the sites of a small array; around the middle of the
\* line of a large one, where the tree splits
QueryPoints(data) ==
    IF Len(data) > LeafSize
       THEN ((Len(data) - QuerySpan)..(Len(data) + QuerySpan)) \X (0..1)
       ELSE ((-1)..(2 * MaxCoord + 1)) \X ((-1)..3)

\* the frames handed to multiple_site_index: the first rows of a list of
\* points, labelled 0, 1, .. (a RangeIndex), with the column names of coords_df
BatchRow(k) == <<2 * k - 1, k % 2>>

Frames ==
    { [columns |-> <<"latitude", "longitude">>, index |-> [k \in 1..n |-> k - 1],
       rows |-> [k \in 1..n |-> BatchRow(k)]]
      : n \in 0..MaxBatch }

NoCall == [op |-> "none", lat |-> 0, lon |-> 0, out |-> <<>>, err |-> "none",
           built |-> 0]

-----------------------------------------------------------------------------
(* Floating-point values as exact rationals <<num, den>> with den >= 0 *)

RECURSIVE GCD(_, _)
GCD(a, b) == IF b = 0 THEN a ELSE GCD(b, a % b)

Sgn(x) == IF x > 0 THEN 1 ELSE IF x < 0 THEN -1 ELSE 0

\* n / d for d >= 0 in lowest terms; d = 0 gives inf, -inf or NaN
Rat(n, d) ==
    IF d = 0 THEN <<Sgn(n), 0>>
    ELSE LET g == GCD(Abs(n), d) IN <<n \div g, d \div g>>

NaN == <<0, 0>>

IsNaN(v) == v = NaN

IsFinite(v) == v[2] > 0

\* variant of TrueDivide: the raw value is scaled up instead of down
TrueDivide_scaled_up(x, sf) == Rat(x * sf, 1)

\* numpy true division of a raw value by the scale factor
TrueDivide(x, sf) == IF sf < 0 THEN Rat(-x, -sf) ELSE Rat(x, sf)

AddV(a, b) ==
    IF IsNaN(a) \/ IsNaN(b) THEN NaN
    ELSE IF IsFinite(a) /\ IsFinite(b) THEN Rat(a[1] * b[2] + b[1] * a[2], a[2] * b[2])
    ELSE IF IsFinite(a) THEN b
    ELSE IF IsFinite(b) THEN a
    ELSE IF a = b THEN a ELSE NaN

SubV(a, b) == AddV(a, <<-b[1], b[2]>>)

MulV(a, b) ==
    IF IsNaN(a) \/ IsNaN(b) THEN NaN
    ELSE IF IsFinite(a) /\ IsFinite(b) THEN Rat(a[1] * b[1], a[2] * b[2])
    ELSE <<Sgn(a[1]) * Sgn(b[1]), 0>>

\* v / k for an integer k >= 0
DivInt(v, k) ==
    IF IsNaN(v) THEN NaN
    ELSE IF k = 0 THEN <<Sgn(v[1]), 0>>
    ELSE IF IsFinite(v) THEN Rat(v[1], v[2] * k)
    ELSE v

\* a < b on values that are not NaN
LessV(a, b) ==
    IF IsFinite(a) /\ IsFinite(b) THEN a[1] * b[2] < b[1] * a[2]
    ELSE IF IsFinite(a) THEN b[1] > 0
    ELSE IF IsFinite(b) THEN a[1] < 0
    ELSE a[1] < b[1]

\* the sum of the values of vs (halved, so that a long series nests shallowly)
RECURSIVE SumV(_)
SumV(vs) ==
    IF vs = <<>> THEN <<0, 1>>
    ELSE IF Len(vs) = 1 THEN vs[1]
    ELSE LET h == Len(vs) \div 2
         IN  AddV(SumV(SubSeq(vs, 1, h)), SumV(SubSeq(vs, h + 1, Len(vs))))

\* the values of vs that are not NaN, in order (skipna = True)
DropNaN(vs) == LET notna(v) == ~IsNaN(v) IN SelectSeq(vs, notna)

\* Series.mean(): the mean of the values that are not NaN; NaN when none
Mean(vs) ==
    LET xs == DropNaN(vs)
    IN  IF xs = <<>> THEN NaN ELSE DivInt(SumV(xs), Len(xs))

\* the square root of a value, kept symbolic: Sqrt(a) = Sqrt(b) iff a = b
Sqrt(v) == <<"sqrt", v>>

\* variant of Var: the population variance (ddof = 0)
Var_population(vs) ==
    LET xs == DropNaN(vs)
        m  == Mean(xs)
        sq == [k \in 1..Len(xs) |-> MulV(SubV(xs[k], m), SubV(xs[k], m))]
    IN  IF Len(xs) < 1 THEN NaN ELSE DivInt(SumV(sq), Len(xs))

\* Series.var(ddof = 1) of the values that are not NaN; NaN for fewer than two
Var(vs) ==
    LET xs == DropNaN(vs)
        m  == Mean(xs)
        sq == [k \in 1..Len(xs) |-> MulV(SubV(xs[k], m), SubV(xs[k], m))]
    IN  IF Len(xs) < 2 THEN NaN ELSE DivInt(SumV(sq), Len(xs) - 1)

\* Series.std(): sample standard deviation, ddof = 1
Std(vs) == Sqrt(Var(vs))

-----------------------------------------------------------------------------
(* Timestamps: whole hours since EpochYear-01-01 00:00, Gregorian calendar *)

EpochYear == 2012

IsLeap(y) == (y % 4 = 0 /\ y % 100 # 0) \/ y % 400 = 0

DaysInYear(y) == IF IsLeap(y) THEN 366 ELSE 365

DaysInMonth(y, m) ==
    IF m = 2 THEN (IF IsLeap(y) THEN 29 ELSE 28)
    ELSE IF m \in {4, 6, 9, 11} THEN 30 ELSE 31

\* <<year, day of the year (0-based)>> of day number dn counted from year y
RECURSIVE YearOf(_, _)
YearOf(dn, y) == IF dn < DaysInYear(y) THEN <<y, dn>> ELSE YearOf(dn - DaysInYear(y), y + 1)

\* <<month, day of the month>> of day dy (0-based) of year y, from month m on
RECURSIVE MonthOf(_, _, _)
MonthOf(dy, y, m) ==
    IF dy < DaysInMonth(y, m) THEN <<m, dy + 1>> ELSE MonthOf(dy - DaysInMonth(y, m), y, m + 1)

dt_year(ts) == YearOf(ts \div 24, EpochYear)[1]

dt_month(ts) == LET yd == YearOf(ts \div 24, EpochYear) IN MonthOf(yd[2], yd[1], 1)[1]

dt_day(ts) == LET yd == YearOf(ts \div 24, EpochYear) IN MonthOf(yd[2], yd[1], 1)[2]

dt_hour(ts) == ts % 24

\* the timestamp of year-month-day 00:00
RECURSIVE DaysBeforeYear(_)
DaysBeforeYear(y) == IF y <= EpochYear THEN 0 ELSE DaysInYear(y - 1) + DaysBeforeYear(y - 1)

RECURSIVE DaysBeforeMonth(_, _)
DaysBeforeMonth(y, m) == IF m <= 1 THEN 0 ELSE DaysInMonth(y, m - 1) + DaysBeforeMonth(y, m - 1)

Timestamp(y, m, d) == 24 * (DaysBeforeYear(y) + DaysBeforeMonth(y, m) + (d - 1))

\* strings as sequences of characters
DigitChar(d) == <<"0", "1", "2", "3", "4", "5", "6", "7", "8", "9">>[d + 1]

DigitVal(c) == CHOOSE d \in 0..9 : DigitChar(d) = c

\* astype(str) of a non-negative integer
RECURSIVE astype_str(_)
astype_str(n) ==
    IF n < 10 THEN <<DigitChar(n)>> ELSE astype_str(n \div 10) \o <<DigitChar(n % 10)>>

\* the fields of s between the '/' separators, as integers
RECURSIVE ParseFields(_, _, _)
ParseFields(s, acc, fields) ==
    IF s = <<>> THEN Append(fields, acc)
    ELSE IF Head(s) = "/" THEN ParseFields(Tail(s), 0, Append(fields, acc))
    ELSE ParseFields(Tail(s), 10 * acc + DigitVal(Head(s)), fields)

\* pd.to_datetime of a 'year/month/day' string
to_datetime(s) ==
    LET f == ParseFields(s, 0, <<>>) IN Timestamp(f[1], f[2], f[3])

-----------------------------------------------------------------------------
(* h5_extractor *)

\* variant of ColumnIndex: the index is taken as counting from one
ColumnIndex_one_based(i, n) == IF i < 0 THEN n + i ELSE i - 1

\* dataset[:, i] of an h5 dataset with n columns: a negative index counts
\* from the end, an index outside the columns is an IndexError
ColumnIndex(i, n) == IF i < 0 THEN n + i ELSE i

\* variant of h5_extractor: a failed read of the store is answered with an
\* empty series instead of the error
h5_extractor_default_on_failure(variable_raw, indx, store_up) ==
    LET n == variable_raw.shape[2]
        i == ColumnIndex(indx, n)
    IN  IF ~store_up THEN [err |-> "none", val |-> <<>>]
        ELSE IF i < 0 \/ i >= n THEN [err |-> "IndexError", val |-> <<>>]
        ELSE [err |-> "none",
              val |-> [t \in 1..variable_raw.shape[1] |->
                          TrueDivide(variable_raw.data[t][i + 1],
                                     variable_raw.scale_factor)]]

\* def h5_extractor(raw_h5, variable, POI_indx): variable_raw is the dataset
\* raw_h5[variable]; store_up = FALSE is a failed read of the store
h5_extractor(variable_raw, indx, store_up) ==
    LET n == variable_raw.shape[2]
        i == ColumnIndex(indx, n)
    IN  IF ~store_up THEN [err |-> "OSError", val |-> <<>>]
        ELSE IF i < 0 \/ i >= n THEN [err |-> "IndexError", val |-> <<>>]
        ELSE [err |-> "none",
              val |-> [t \in 1..variable_raw.shape[1] |->
                          TrueDivide(variable_raw.data[t][i + 1],
                                     variable_raw.scale_factor)]]

-----------------------------------------------------------------------------
(* windspeed_point_df_maker *)

\* Series.iloc[i] on a series of n entries
Iloc(i, n) == IF i < 0 THEN n + i ELSE i

\* def windspeed_point_df_maker(time_df, coords_df, windspeed, POI_indx).
\* The body reads the module-level name windspeed_100 (global_ws); the
\* parameter windspeed is not used.  A column assigned from a frame is
\* aligned on the row labels: a row without a partner gets NaN.
windspeed_point_df_maker(time_df, coords_df, windspeed, indx, global_ws) ==
    LET n   == Len(coords_df)
        i   == Iloc(indx, n)
        ws  == [k \in 1..Len(time_df) |->
                   IF k <= Len(global_ws) THEN global_ws[k] ELSE NaN]
        avg == Mean(ws)
    IN  IF i < 0 \/ i >= n THEN [err |-> "IndexError", rows |-> <<>>]
        ELSE [err |-> "none",
              rows |-> [k \in 1..Len(time_df) |->
                  [year          |-> dt_year(time_df[k]),
                   month         |-> dt_month(time_df[k]),
                   day           |-> dt_day(time_df[k]),
                   hour          |-> dt_hour(time_df[k]),
                   latitude      |-> Coord(coords_df, i, 0),
                   longitude     |-> Coord(coords_df, i, 1),
                   windspeed     |-> ws[k],
                   avg_windspeed |-> avg]]]

-----------------------------------------------------------------------------
(* time_subset *)

\* variant of KeyOf: the last key column is windspeed, not avg_windspeed
KeyOf_by_windspeed(row, per) ==
    IF per = "hour" THEN <<row.year, row.month, row.hour, row.windspeed>>
    ELSE IF per = "day" THEN <<row.year, row.month, row.day, row.windspeed>>
    ELSE <<row.month, row.windspeed>>

\* variant of KeyOf: the hour of the day is left out of the 'hour' key
KeyOf_hour_as_month(row, per) ==
    IF per = "hour" THEN <<row.year, row.month, 0, row.avg_windspeed>>
    ELSE IF per = "day" THEN <<row.year, row.month, row.day, row.avg_windspeed>>
    ELSE <<row.month, row.avg_windspeed>>

\* the grouping key of a row: the calendar columns, then avg_windspeed
KeyOf(row, per) ==
    IF per = "hour" THEN <<row.year, row.month, row.hour, row.avg_windspeed>>
    ELSE IF per = "day" THEN <<row.year, row.month, row.day, row.avg_windspeed>>
    ELSE <<row.month, row.avg_windspeed>>

\* lexicographic order of two keys of the same shape (last column a value)
RECURSIVE LessKey(_, _)
LessKey(a, b) ==
    IF Len(a) = 1 THEN LessV(a[1], b[1])
    ELSE IF a[1] # b[1] THEN a[1] < b[1]
    ELSE LessKey(Tail(a), Tail(b))

\* variant of SortKeys: the keys in descending order
SortKeys_descending(K) ==
    LET ranked == {<<Cardinality({b \in K : LessKey(a, b)}), a>> : a \in K}
        nth(g) == CHOOSE r \in ranked : r[1] = g - 1
    IN  SubSeq([g \in 1..Cardinality(K) |-> nth(g)[2]], 1, Cardinality(K))

\* the keys of K in ascending order (groupby sort = True)
SortKeys(K) ==
    LET ranked == {<<Cardinality({b \in K : LessKey(b, a)}), a>> : a \in K}
        nth(g) == CHOOSE r \in ranked : r[1] = g - 1
    IN  SubSeq([g \in 1..Cardinality(K) |-> nth(g)[2]], 1, Cardinality(K))

\* df.groupby(keys): one group per distinct key, in key order, holding the
\* positions of its rows; rows with a NaN in a key column are dropped
Groups(rows, per) ==
    LET kept  == {k \in 1..Len(rows) : ~IsNaN(rows[k].avg_windspeed)}
        keyed == {<<KeyOf(rows[k], per), k>> : k \in kept}
        keys  == SortKeys({r[1] : r \in keyed})
        group(g) == LET key == keys[g]
                    IN  [key |-> key,
                         members |-> {r[2] : r \in {q \in keyed : q[1] = key}}]
    IN  SubSeq([g \in 1..Len(keys) |-> group(g)], 1, Len(keys))

\* the windspeed values of a set of rows, in row order
ValuesOf(rows, members, k) ==
    LET later(j) == j >= k /\ j \in members
        idx == SelectSeq([j \in 1..Len(rows) |-> j], later)
    IN  SubSeq([i \in 1..Len(idx) |-> rows[idx[i]].windspeed], 1, Len(idx))

AllowedPeriods == {"hour", "day", "month"}

PeriodMessage == "Period must be desginated as either hour, day, or month"

\* variant of CallerFrame: the 'day' branch writes its date column into the
\* frame it was given
CallerFrame_date_in_place(per, frame) ==
    IF per = "day"
    THEN [frame EXCEPT !.rows =
            [k \in 1..Len(frame.rows) |->
                [c \in DOMAIN frame.rows[k] \cup {"date"} |->
                    IF c = "date"
                    THEN Timestamp(frame.rows[k].year, frame.rows[k].month,
                                   frame.rows[k].day)
                    ELSE frame.rows[k][c]]]]
    ELSE frame

\* the caller's frame after time_subset(period, df): every branch rebinds the
\* local name df to the new table (df = df.groupby(...).agg(...)) before it
\* writes df['date'], so the frame passed in is not written to
CallerFrame(per, frame) == frame

\* def time_subset(period, df): the frame returned and the line printed
time_subset(per, frame) ==
    LET gs     == Groups(frame.rows, per)
        vals(g) == ValuesOf(frame.rows, gs[g].members, 1)
    IN  IF per = "hour" THEN
            [df |-> [kind |-> "hour", rows |-> [g \in 1..Len(gs) |->
                      LET v == vals(g) IN
                        [year |-> gs[g].key[1], month |-> gs[g].key[2],
                         hour |-> gs[g].key[3], avg_windspeed |-> gs[g].key[4],
                         hour_avg_windspeed |-> Mean(v),
                         standard_dev |-> Std(v)]]],
             printed |-> "", arg |-> CallerFrame(per, frame)]
        ELSE IF per = "day" THEN
            [df |-> [kind |-> "day", rows |-> [g \in 1..Len(gs) |->
                      LET v == vals(g) IN
                        [year |-> gs[g].key[1], month |-> gs[g].key[2],
                         day |-> gs[g].key[3], avg_windspeed |-> gs[g].key[4],
                         daily_avg_windspeed |-> Mean(v),
                         standard_dev |-> Std(v),
                         date |-> to_datetime(astype_str(gs[g].key[1]) \o <<"/">>
                                           \o astype_str(gs[g].key[2]) \o <<"/">>
                                           \o astype_str(gs[g].key[3]))]]],
             printed |-> "", arg |-> CallerFrame(per, frame)]
        ELSE IF per = "month" THEN
            [df |-> [kind |-> "month", rows |-> [g \in 1..Len(gs) |->
                      LET v == vals(g) IN
                        [month |-> gs[g].key[1], avg_windspeed |-> gs[g].key[2],
                         month_avg_windspeed |-> Mean(v),
                         standard_dev |-> Std(v)]]],
             printed |-> "", arg |-> CallerFrame(per, frame)]
        ELSE [df |-> frame, printed |-> PeriodMessage,
              arg |-> CallerFrame(per, frame)]

-----------------------------------------------------------------------------
(* The session of two query pipelines:                                     *)
(*   site index -> h5_extractor -> windspeed_point_df_maker -> time_subset *)

Pipes == {1, 2}

\* sites on a diagonal, 0..MaxSites of them
PipeArrays == { [i \in 1..n |-> <<2 * (i - 1), 2 * (i - 1)>>] : n \in 0..MaxSites }

PipeQueries == {<<0, 0>>, <<3, 3>>}

\* raw columns (stored integers): constant, first sample doubled, all zero
Columns ==
    << [k \in 1..NSamples |-> 500],
       [k \in 1..NSamples |-> IF k = 1 THEN 1000 ELSE 500],
       [k \in 1..NSamples |-> 0] >>

ScaleFactors == {0, 100}

\* the datasets of shape (NSamples, n): site j holds column j + shift
Datasets(n) ==
    { [data |-> [t \in 1..NSamples |->
                    [j \in 1..n |-> Columns[((j + shift) % Len(Columns)) + 1][t]]],
       shape |-> <<NSamples, n>>,
       scale_factor |-> sf]
      : shift \in 1..Len(Columns), sf \in ScaleFactors }

\* Jan 1 22:00 and Jan 31 22:00; hourly or daily spacing
TimeStarts == {22, 24 * 30 + 22}

TimeSteps == {1, 24}

TimeAxes ==
    { [k \in 1..NSamples |-> start + step * (k - 1)]
      : start \in TimeStarts, step \in TimeSteps }

Periods == {"hour", "day", "month", "week"}

Unbound == [bound |-> FALSE, val |-> <<>>]

NoFrame == [kind |-> "none", rows |-> <<>>]

Init ==
    /\ coords \in PipeArrays
    /\ raw \in Datasets(Len(coords))
    /\ time_index \in TimeAxes
    /\ windspeed_100 = Unbound
    /\ POI_indx = [p \in Pipes |-> 0]
    /\ pc = [p \in Pipes |-> "start"]
    /\ ser = [p \in Pipes |-> <<>>]
    /\ df = [p \in Pipes |-> NoFrame]
    /\ table = [p \in Pipes |-> NoFrame]
    /\ period = [p \in Pipes |-> ""]
    /\ err = [p \in Pipes |-> "none"]
    /\ printed = [p \in Pipes |-> ""]
    /\ POI_df = [columns |-> <<"lat", "lon">>, index |-> <<>>, rows |-> <<>>]
    /\ ret = NoCall

\* POI_indx = nearest_site(coord_array = coords, lat_coord, lon_coord)
Lookup(p) ==
    /\ pc[p] = "start"
    /\ \E q \in PipeQueries : \E pos \in nearest_site(coords, q[1], q[2]) :
          POI_indx' = [POI_indx EXCEPT ![p] = pos]
    /\ pc' = [pc EXCEPT ![p] = "indexed"]
    /\ UNCHANGED <<coords, raw, time_index, windspeed_100, ser, df, table,
                   period, err, printed, POI_df, ret>>

\* the caller passes a site index of its own to h5_extractor
Supply(p) ==
    /\ pc[p] = "start"
    /\ \E i \in (-1)..Len(coords) : POI_indx' = [POI_indx EXCEPT ![p] = i]
    /\ pc' = [pc EXCEPT ![p] = "indexed"]
    /\ UNCHANGED <<coords, raw, time_index, windspeed_100, ser, df, table,
                   period, err, printed, POI_df, ret>>

\* windspeed_100 = h5_extractor(raw_h5, 'windspeed_100m', POI_indx): an
\* exception leaves the module-level name as it was
Extract(p) ==
    /\ pc[p] = "indexed"
    /\ \E store_up \in BOOLEAN :
         LET r == h5_extractor(raw, POI_indx[p], store_up)
         IN  IF r.err = "none"
             THEN /\ windspeed_100' = [bound |-> TRUE, val |-> r.val]
                  /\ ser' = [ser EXCEPT ![p] = r.val]
                  /\ pc' = [pc EXCEPT ![p] = "extracted"]
                  /\ err' = err
             ELSE /\ err' = [err EXCEPT ![p] = r.err]
                  /\ pc' = [pc EXCEPT ![p] = "failed"]
                  /\ UNCHANGED <<windspeed_100, ser>>
    /\ UNCHANGED <<coords, raw, time_index, POI_indx, df, table, period,
                   printed, POI_df, ret>>

\* df = windspeed_point_df_maker(time_df, coords_df, windspeed = the
\* pipeline's own series, POI_indx)
Decorate(p) ==
    /\ pc[p] = "extracted"
    /\ IF ~windspeed_100.bound
       THEN /\ err' = [err EXCEPT ![p] = "NameError"]
            /\ pc' = [pc EXCEPT ![p] = "failed"]
            /\ df' = df
       ELSE LET r == windspeed_point_df_maker(time_index, coords, ser[p],
                                              POI_indx[p], windspeed_100.val)
            IN  IF r.err = "none"
                THEN /\ df' = [df EXCEPT ![p] = [kind |-> "frame", rows |-> r.rows]]
                     /\ pc' = [pc EXCEPT ![p] = "decorated"]
                     /\ err' = err
                ELSE /\ err' = [err EXCEPT ![p] = r.err]
                     /\ pc' = [pc EXCEPT ![p] = "failed"]
                     /\ df' = df
    /\ UNCHANGED <<coords, raw, time_index, windspeed_100, POI_indx, ser,
                   table, period, printed, POI_df, ret>>

\* table = time_subset(period, df), on the same frame as often as wanted
Aggregate(p) ==
    /\ pc[p] \in {"decorated", "done"}
    /\ \E per \in Periods :
         LET r == time_subset(per, df[p])
         IN  /\ table' = [table EXCEPT ![p] = r.df]
             /\ printed' = [printed EXCEPT ![p] = r.printed]
             /\ period' = [period EXCEPT ![p] = per]
             /\ df' = [df EXCEPT ![p] = r.arg]
    /\ pc' = [pc EXCEPT ![p] = "done"]
    /\ UNCHANGED <<coords, raw, time_index, windspeed_100, POI_indx, ser,
                   err, POI_df, ret>>

Next ==
    \E p \in Pipes :
        Lookup(p) \/ Supply(p) \/ Extract(p) \/ Decorate(p) \/ Aggregate(p)

Spec == Init /\ [][Next]_vars

-----------------------------------------------------------------------------
(* The lookup model: calls of nearest_site and multiple_site_index on one  *)
(* coordinate array                                                        *)

InitIndex ==
    /\ coords \in CoordArrays
    /\ POI_df \in Frames
    /\ ret = NoCall
    /\ raw = [data |-> [t \in 1..NSamples |-> <<>>], shape |-> <<NSamples, 0>>,
              scale_factor |-> 100]
    /\ time_index = [k \in 1..NSamples |-> k - 1]
    /\ windspeed_100 = Unbound
    /\ POI_indx = [p \in Pipes |-> 0]
    /\ pc = [p \in Pipes |-> "idle"]
    /\ ser = [p \in Pipes |-> <<>>]
    /\ df = [p \in Pipes |-> NoFrame]
    /\ table = [p \in Pipes |-> NoFrame]
    /\ period = [p \in Pipes |-> ""]
    /\ err = [p \in Pipes |-> "none"]
    /\ printed = [p \in Pipes |-> ""]

PipelineVars == <<raw, time_index, windspeed_100, POI_indx, pc, ser, df,
                  table, period, err, printed>>

\* nearest_site(coords, lat, lon) called on its own; the call makes its tree
CallNearestSite ==
    /\ \E x \in QueryPoints(coords) : \E pos \in nearest_site(coords, x[1], x[2]) :
          ret' = [op |-> "nearest_site", lat |-> x[1], lon |-> x[2],
                  out |-> <<pos>>, err |-> "none", built |-> 1]
    /\ UNCHANGED <<coords, POI_df, PipelineVars>>

\* multiple_site_index(POI_df, coords): the caller's frame is relabelled
\* before anything can fail
CallMultipleSiteIndex ==
    /\ \E r \in multiple_site_index(POI_df, coords) :
          ret' = [op |-> "multiple_site_index", lat |-> 0, lon |-> 0,
                  out |-> r.out, err |-> r.err, built |-> r.built]
    /\ POI_df' = RenameColumns(POI_df)
    /\ UNCHANGED <<coords, PipelineVars>>

\* the archived draft of multiple_site_index
CallMultipleSiteIndexArchive ==
    /\ \E r \in multiple_site_index_archive(POI_df, coords) :
          ret' = [op |-> "multiple_site_index_archive", lat |-> 0, lon |-> 0,
                  out |-> r.out, err |-> r.err, built |-> r.built]
    /\ POI_df' = RenameColumns(POI_df)
    /\ UNCHANGED <<coords, PipelineVars>>

NextIndex == CallNearestSite \/ CallMultipleSiteIndex \/ CallMultipleSiteIndexArchive

SpecIndex == InitIndex /\ [][NextIndex]_vars

-----------------------------------------------------------------------------
(* The series model: extraction, decoration and aggregation of one site on *)
(* longer time axes: a day of hourly samples, a whole year sampled every   *)
(* SampleStep hours, the same two days of several years                    *)

\* one sample per hour from the hour first up to, not including, the hour last
HourAxis(first, last) == [k \in 1..(last - first) |-> first + (k - 1)]

\* the 24 hourly samples of the day that starts at timestamp start
DayAxis(start) == [k \in 1..24 |-> start + (k - 1)]

\* the samples of the year y from Jan 1 00:00 on, one every SampleStep hours
YearAxis(y) ==
    LET first == 24 * DaysBeforeYear(y)
        last  == 24 * DaysBeforeYear(y + 1)
    IN  [k \in 1..((last - first + SampleStep - 1) \div SampleStep) |->
            first + SampleStep * (k - 1)]

\* Jan 31 22:00 and Feb 1 22:00 of each of SpanYears years
MultiYearAxis ==
    [k \in 1..(2 * SpanYears) |->
        Timestamp(EpochYear + (k - 1) \div 2, 1, 31) + 22 + 24 * ((k - 1) % 2)]

\* the four hours around the turn of the year: Dec 31 22:00 to Jan 1 01:00
YearEndAxis ==
    HourAxis(Timestamp(EpochYear, 12, 31) + 22, Timestamp(EpochYear + 1, 1, 1) + 2)

\* the days 2012-01-01 and 2012-02-29, the year 2012, several years, the
\* turn of the year
SeriesAxes ==
    {DayAxis(0), DayAxis(Timestamp(EpochYear, 2, 29)), YearAxis(EpochYear),
     MultiYearAxis, YearEndAxis}

\* the datasets of shape (len, 1): the columns of Columns at length len
SeriesDatasets(len) ==
    { [data |-> [t \in 1..len |->
                    <<IF c = 3 THEN 0 ELSE IF c = 2 /\ t = 1 THEN 1000 ELSE 500>>],
       shape |-> <<len, 1>>,
       scale_factor |-> sf]
      : c \in 1..Len(Columns), sf \in ScaleFactors }

InitSeries ==
    /\ coords = << <<0, 0>> >>
    /\ time_index \in SeriesAxes
    /\ raw \in SeriesDatasets(Len(time_index))
    /\ windspeed_100 = Unbound
    /\ POI_indx = [p \in Pipes |-> 0]
    /\ pc = [p \in Pipes |-> IF p = 1 THEN "indexed" ELSE "idle"]
    /\ ser = [p \in Pipes |-> <<>>]
    /\ df = [p \in Pipes |-> NoFrame]
    /\ table = [p \in Pipes |-> NoFrame]
    /\ period = [p \in Pipes |-> ""]
    /\ err = [p \in Pipes |-> "none"]
    /\ printed = [p \in Pipes |-> ""]
    /\ POI_df = [columns |-> <<"lat", "lon">>, index |-> <<>>, rows |-> <<>>]
    /\ ret = NoCall

NextSeries == \E p \in Pipes : Extract(p) \/ Decorate(p) \/ Aggregate(p)

SpecSeries == InitSeries /\ [][NextSeries]_vars

-----------------------------------------------------------------------------
(* the pipeline on gapless hourly time axes: whole years and whole months *)

\* the hours of the year y, as time_index holds them for that year
HourlyYear(y) == HourAxis(24 * DaysBeforeYear(y), 24 * DaysBeforeYear(y + 1))

\* the hours of February of the year y
HourlyFebruary(y) == HourAxis(Timestamp(y, 2, 1), Timestamp(y, 3, 1))

\* a leap year and the common year after it
Years == {EpochYear, EpochYear + 1}

\* the dataset of shape (len, 1) whose every stored integer is v
FlatDataset(v, sf, len) ==
    [data |-> [t \in 1..len |-> <<v>>], shape |-> <<len, 1>>, scale_factor |-> sf]

InitYear ==
    /\ coords = << <<0, 0>> >>
    /\ \E y \in Years :
          \/ /\ time_index = HourlyYear(y)
             /\ raw \in {FlatDataset(500, 100, Len(time_index)),
                         FlatDataset(0, 0, Len(time_index))}
          \/ /\ time_index = HourlyFebruary(y)
             /\ raw \in {FlatDataset(v, sf, Len(time_index)) :
                            v \in {0, 500, 1000}, sf \in ScaleFactors}
    /\ windspeed_100 = Unbound
    /\ POI_indx = [p \in Pipes |-> 0]
    /\ pc = [p \in Pipes |-> IF p = 1 THEN "indexed" ELSE "idle"]
    /\ ser = [p \in Pipes |-> <<>>]
    /\ df = [p \in Pipes |-> NoFrame]
    /\ table = [p \in Pipes |-> NoFrame]
    /\ period = [p \in Pipes |-> ""]
    /\ err = [p \in Pipes |-> "none"]
    /\ printed = [p \in Pipes |-> ""]
    /\ POI_df = [columns |-> <<"lat", "lon">>, index |-> <<>>, rows |-> <<>>]
    /\ ret = NoCall

SpecYear == InitYear /\ [][NextSeries]_vars

-----------------------------------------------------------------------------
(* Properties *)

NSites == Len(coords)

\* squared distance from site j (0-based) to the point <<lat, lon>>, written
\* out for the brute-force comparison
BruteDist2(j, lat, lon) ==
    (coords[j + 1][1] - lat) * (coords[j + 1][1] - lat)
  + (coords[j + 1][2] - lon) * (coords[j + 1][2] - lon)

\* the sites at minimal distance from <<lat, lon>>
BruteNearest(lat, lon) ==
    {i \in 0..(NSites - 1) :
        \A j \in 0..(NSites - 1) : BruteDist2(i, lat, lon) <= BruteDist2(j, lat, lon)}

\* C1: on a non-empty coordinate array nearest_site returns the index of a
\* site whose Euclidean distance to the query point is less than or equal to
\* the distance of every other site (brute-force minimum over all sites).
C1_NearestIsMinimal ==
    (ret.op = "nearest_site" /\ NSites > 0)
        => ret.out[1] \in BruteNearest(ret.lat, ret.lon)

\* a query on an array large enough for the tree to split, answered from the
\* far half of the array, with sites at different distances
C1_Witness ==
    /\ ret.op = "nearest_site"
    /\ NSites > LeafSize
    /\ ret.out[1] > NSites \div 2
    /\ BruteDist2(ret.out[1], ret.lat, ret.lon) > 0
    /\ BruteDist2(0, ret.lat, ret.lon) > BruteDist2(ret.out[1], ret.lat, ret.lon)

\* C2: when two or more sites are at the same minimal distance from the
\* query point, nearest_site returns the lowest index among them.
C2_TieLowestIndex ==
    (ret.op = "nearest_site" /\ NSites > 0)
        => ret.out[1] = SetMin(BruteNearest(ret.lat, ret.lon))

\* C3: a call of time_subset with a period outside {hour, day, month} never
\* returns to the caller with a frame (it ends in an error).
C3_InvalidPeriodFails ==
    \A p \in Pipes : pc[p] = "done" => period[p] \in AllowedPeriods

\* the table a pipeline produces when it runs alone on site index indx
RunAlone(indx, per) ==
    LET r == h5_extractor(raw, indx, TRUE)
        d == windspeed_point_df_maker(time_index, coords, r.val, indx, r.val)
    IN  time_subset(per, [kind |-> "frame", rows |-> d.rows]).df

\* C4: when the pipelines of two sites are interleaved, the table of each
\* pipeline equals the table that pipeline produces when run alone.
C4_InterleavingIsolated ==
    \A p \in Pipes : pc[p] = "done" => table[p] = RunAlone(POI_indx[p], period[p])

\* C5: multiple_site_index on a batch of n points returns exactly n site
\* indices in input order, the i-th being nearest_site of the i-th point.
C5_BatchMatchesSingle ==
    ret.op = "multiple_site_index"
        => /\ ret.err = "none"
           /\ Len(ret.out) = Len(POI_df.rows)
           /\ \A i \in 1..Len(POI_df.rows) :
                 ret.out[i] \in nearest_site(coords, POI_df.rows[i][1], POI_df.rows[i][2])

\* C6: nearest_site on an empty coordinate array fails; it never returns a
\* site index.
C6_EmptyIndexFails ==
    (ret.op = "nearest_site" /\ NSites = 0) => ret.err # "none"

Extracted(p) == pc[p] \in {"extracted", "decorated", "done"}

\* C7: h5_extractor returns, for the column of the requested site, each raw
\* value divided by the scale factor, element by element in time order; a raw
\* value of 500 with scale factor 100 decodes to 5.0.
C7_ExtractDecodes ==
    \A p \in Pipes :
        (Extracted(p) /\ POI_indx[p] \in 0..(NSites - 1) /\ raw.scale_factor > 0)
        => /\ Len(ser[p]) = Len(time_index)
           /\ \A t \in 1..Len(time_index) :
                LET x == raw.data[t][POI_indx[p] + 1]
                    v == ser[p][t]
                IN  /\ v[2] > 0
                    /\ v[1] * raw.scale_factor = x * v[2]
                    /\ (x = 500 /\ raw.scale_factor = 100) => v = <<5, 1>>

\* the second site's column, whose first sample differs from the later ones,
\* decoded with scale factor 100 (500 -> 5.0)
C7_Witness ==
    \E p \in Pipes :
        /\ Extracted(p)
        /\ POI_indx[p] = 1
        /\ raw.scale_factor = 100
        /\ raw.data[2][2] = 500
        /\ ser[p][2] = <<5, 1>>
        /\ ser[p][1] # ser[p][2]

\* C8: h5_extractor on a variable whose scale factor is zero fails and
\* returns no series.
C8_ZeroScaleFails ==
    \A p \in Pipes : Extracted(p) => raw.scale_factor # 0

\* C9: h5_extractor with a site index outside the known sites fails; it
\* never returns the column of a different site.
C9_OutOfRangeFails ==
    \A p \in Pipes : Extracted(p) => POI_indx[p] \in 0..(NSites - 1)

\* C10: windspeed_point_df_maker returns one row per entry of the time axis
\* and the value in row i is the i-th value of the point series passed as its
\* argument, whatever other series exist in the session.
C10_DecorateUsesArgument ==
    \A p \in Pipes :
        pc[p] \in {"decorated", "done"}
        => /\ Len(df[p].rows) = Len(time_index)
           /\ \A k \in 1..Len(time_index) : df[p].rows[k].windspeed = ser[p][k]

\* the arithmetic mean of a series: the sum of its values over their number
ArithMean(vs) == DivInt(SumV(vs), Len(vs))

\* C11: in every frame windspeed_point_df_maker returns, avg_windspeed has
\* the same value in every row, and that value is the arithmetic mean of all
\* values of the point series that was passed to it.
C11_AvgIsMeanOfArgument ==
    \A p \in Pipes :
        pc[p] \in {"decorated", "done"}
        => \A k \in 1..Len(df[p].rows) :
              /\ df[p].rows[k].avg_windspeed = df[p].rows[1].avg_windspeed
              /\ df[p].rows[k].avg_windspeed = ArithMean(ser[p])

\* the calendar key of a row of a frame or of a table at resolution per
CalKey(row, per) ==
    IF per = "hour" THEN <<row.year, row.month, row.hour>>
    ELSE IF per = "day" THEN <<row.year, row.month, row.day>>
    ELSE <<row.month>>

\* the mean column of a table row at resolution per
RowMean(row, per) ==
    IF per = "hour" THEN row.hour_avg_windspeed
    ELSE IF per = "day" THEN row.daily_avg_windspeed
    ELSE row.month_avg_windspeed

\* the samples (row positions) of a frame that carry the calendar key
SamplesOf(rows, key, per) == {k \in 1..Len(rows) : CalKey(rows[k], per) = key}

\* the sum of f over the positions in S
RECURSIVE SumOver(_, _)
SumOver(f, S) ==
    IF S = {} THEN <<0, 1>>
    ELSE LET k == CHOOSE j \in S : TRUE IN AddV(f[k], SumOver(f, S \ {k}))

\* arithmetic mean of the values of the samples in S
GroupMean(rows, S) ==
    DivInt(SumOver([k \in S |-> rows[k].windspeed], S), Cardinality(S))

\* sample standard deviation (divisor n - 1) of the values of the samples in
\* S; undefined (NaN under the root) for fewer than two samples
GroupStd(rows, S) ==
    LET m  == GroupMean(rows, S)
        sq == [k \in S |-> MulV(SubV(rows[k].windspeed, m), SubV(rows[k].windspeed, m))]
    IN  Sqrt(IF Cardinality(S) < 2 THEN NaN
             ELSE DivInt(SumOver(sq, S), Cardinality(S) - 1))

\* the table of pipeline p has one row per distinct calendar key of its
\* frame, holding the mean and sample standard deviation of that key's samples
OneRowPerKey(p, per) ==
    LET rows == df[p].rows
        keys == {CalKey(rows[k], per) : k \in 1..Len(rows)}
    IN  /\ Len(table[p].rows) = Cardinality(keys)
        /\ \A key \in keys :
              \E g \in 1..Len(table[p].rows) :
                 /\ CalKey(table[p].rows[g], per) = key
                 /\ RowMean(table[p].rows[g], per)
                        = GroupMean(rows, SamplesOf(rows, key, per))
                 /\ table[p].rows[g].standard_dev
                        = GroupStd(rows, SamplesOf(rows, key, per))

\* C12: time_subset with period 'hour' yields one row per distinct (year,
\* month, hour) present in the frame; the row's mean is the arithmetic mean of
\* the values of exactly the samples with that key and its standard deviation
\* is their sample standard deviation (divisor n - 1).
C12_HourRows ==
    \A p \in Pipes :
        (pc[p] = "done" /\ period[p] = "hour") => OneRowPerKey(p, "hour")

\* the frame of 24 samples, one per hour of a single day, all of value 5.0
\* except 10.0 at hour 0
Scenario24(rows) ==
    /\ Len(rows) = 24
    /\ \A k \in 1..24 :
          /\ rows[k].year = rows[1].year
          /\ rows[k].month = rows[1].month
          /\ rows[k].day = rows[1].day
          /\ rows[k].hour = k - 1
          /\ rows[k].windspeed = IF k = 1 THEN <<10, 1>> ELSE <<5, 1>>

\* a standard deviation that is a number greater than 0
StdPositive(sd) == sd[2][1] > 0 /\ sd[2][2] > 0

\* C13 (as claimed): for a series of 24 samples, one per hour of a single
\* day, all 5.0 except 10.0 at hour 0, time_subset with period 'hour' yields a
\* group whose mean is (5.0 * 23 + 10.0) / 24 = 125/24 and whose standard
\* deviation is greater than 0.
C13_HourOneGroup ==
    \A p \in Pipes :
        (pc[p] = "done" /\ period[p] = "hour" /\ Scenario24(df[p].rows))
        => \E g \in 1..Len(table[p].rows) :
              /\ table[p].rows[g].hour_avg_windspeed = <<125, 24>>
              /\ StdPositive(table[p].rows[g].standard_dev)

\* C13 (amended): for that series, time_subset with period 'month' yields a
\* single row whose mean is 125/24 and whose standard deviation is greater
\* than 0; with period 'hour' it yields 24 rows, one per hour, each with the
\* value of its one sample as mean and a NaN standard deviation.
C13_MonthOneGroup ==
    \A p \in Pipes :
        (pc[p] = "done" /\ Scenario24(df[p].rows))
        => /\ period[p] = "month"
                => /\ Len(table[p].rows) = 1
                   /\ table[p].rows[1].month = df[p].rows[1].month
                   /\ table[p].rows[1].month_avg_windspeed = <<125, 24>>
                   /\ StdPositive(table[p].rows[1].standard_dev)
           /\ period[p] = "hour"
                => /\ Len(table[p].rows) = 24
                   /\ \A g \in 1..Len(table[p].rows) :
                         /\ table[p].rows[g].hour = g - 1
                         /\ table[p].rows[g].hour_avg_windspeed = df[p].rows[g].windspeed
                         /\ table[p].rows[g].standard_dev = Sqrt(NaN)

\* the 24 samples of 2012-02-29 aggregated by month: one row for February
C13_Witness ==
    \E p \in Pipes :
        /\ pc[p] = "done"
        /\ period[p] = "month"
        /\ Scenario24(df[p].rows)
        /\ df[p].rows[1].day = 29
        /\ Len(table[p].rows) = 1
        /\ table[p].rows[1].month = 2
        /\ table[p].rows[1].month_avg_windspeed = <<125, 24>>

RowsHolding(p, k, per) ==
    {g \in 1..Len(table[p].rows) :
        CalKey(table[p].rows[g], per) = CalKey(df[p].rows[k], per)}

\* C15: time_subset with period 'month' on a gapless series that covers a
\* whole year yields exactly 12 rows, and every sample of the year belongs to
\* the group of exactly one row (the groups are pairwise disjoint and their
\* union is the whole series).
C15_MonthPartition ==
    \A p \in Pipes :
        (pc[p] = "done" /\ period[p] = "month" /\ time_index = YearAxis(EpochYear))
        => /\ Len(table[p].rows) = 12
           /\ \A k \in 1..Len(df[p].rows) : Cardinality(RowsHolding(p, k, "month")) = 1

\* the sum of the sizes of the groups behind the first g rows of the table
RECURSIVE SizesUpTo(_, _, _)
SizesUpTo(p, per, g) ==
    IF g = 0 THEN 0
    ELSE Cardinality(SamplesOf(df[p].rows, CalKey(table[p].rows[g], per), per))
         + SizesUpTo(p, per, g - 1)

\* C16: for each period in {hour, day, month}, the sizes of the groups
\* behind the rows of the table sum to the number of samples of the frame,
\* and no two rows stand for the same group: no sample is dropped and none
\* is counted twice.
C16_GroupSizesSum ==
    \A p \in Pipes :
        (pc[p] = "done" /\ period[p] \in AllowedPeriods)
        => /\ SizesUpTo(p, period[p], Len(table[p].rows)) = Len(df[p].rows)
           /\ \A g, h \in 1..Len(table[p].rows) :
                 g # h => CalKey(table[p].rows[g], period[p])
                            # CalKey(table[p].rows[h], period[p])

\* C17: time_subset with period 'month' groups by the month number only: it
\* yields one row per distinct month present and never more than 12 rows,
\* also when the series spans several years (the samples of one month of
\* different years fall in one row), each row holding the mean and the
\* sample standard deviation of all samples of that month.
C17_MonthRows ==
    \A p \in Pipes :
        (pc[p] = "done" /\ period[p] = "month")
        => /\ Len(table[p].rows) <= 12
           /\ OneRowPerKey(p, "month")

\* the date column of a table row names the row's own year, month and day
DateRoundTrips(row) ==
    /\ dt_year(row.date) = row.year
    /\ dt_month(row.date) = row.month
    /\ dt_day(row.date) = row.day

\* C18: time_subset with period 'day' yields one row per distinct (year,
\* month, day) present in the frame, with the mean and sample standard
\* deviation of that day's samples and a date whose calendar year, month and
\* day equal the row's own year, month and day.
C18_DayRows ==
    \A p \in Pipes :
        (pc[p] = "done" /\ period[p] = "day")
        => /\ OneRowPerKey(p, "day")
           /\ \A g \in 1..Len(table[p].rows) : DateRoundTrips(table[p].rows[g])

\* C19: for each of the three periods, every row of the table carries an
\* avg_windspeed equal to the avg_windspeed of the decorated frame it was
\* made from: the same value in all rows, the mean of the whole series and
\* not of the row's group.
C19_CarriedSeriesMean ==
    \A p \in Pipes :
        (pc[p] = "done" /\ period[p] \in AllowedPeriods)
        => LET whole == ArithMean([k \in 1..Len(df[p].rows) |-> df[p].rows[k].windspeed])
           IN  \A g \in 1..Len(table[p].rows) :
                  /\ \A k \in 1..Len(df[p].rows) :
                        table[p].rows[g].avg_windspeed = df[p].rows[k].avg_windspeed
                  /\ table[p].rows[g].avg_windspeed = whole

\* the month table of 10.0, 5.0, 5.0, 5.0 sampled in January and February of
\* two years: the rows have the means 7.5 and 5.0 and both carry 6.25
C19_Witness ==
    \E p \in Pipes :
        /\ pc[p] = "done"
        /\ period[p] = "month"
        /\ Len(table[p].rows) = 2
        /\ table[p].rows[1].month_avg_windspeed = <<15, 2>>
        /\ table[p].rows[2].month_avg_windspeed = <<5, 1>>
        /\ table[p].rows[1].avg_windspeed = <<25, 4>>
        /\ table[p].rows[2].avg_windspeed = <<25, 4>>

\* C20: when the work on one point of a batch fails inside
\* multiple_site_index, the other points are neither corrupted nor blocked:
\* the caller still receives one entry per point, the site index of every
\* point whose own nearest_site query succeeds.
C20_BatchFailureIsolated ==
    (ret.op \in {"multiple_site_index", "multiple_site_index_archive"}
        /\ ret.err # "none" /\ Len(POI_df.rows) > 1)
        => /\ Len(ret.out) = Len(POI_df.rows)
           /\ \A i \in 1..Len(POI_df.rows) :
                 ret.out[i] \in nearest_site(coords, POI_df.rows[i][1], POI_df.rows[i][2])

\* C21: when the read of the store fails during h5_extractor, the failure
\* reaches the caller: the pipeline ends with the error, holding no series (no
\* default and no partial one), no frame and no table; the fetch is not
\* tried again; and every series that does reach the caller has one value per
\* entry of the time axis.
C21_StoreFailureSurfaces ==
    /\ [](\A p \in Pipes :
            /\ (pc[p] = "failed" /\ err[p] = "OSError")
                  => (ser[p] = <<>> /\ df[p] = NoFrame /\ table[p] = NoFrame)
            /\ Extracted(p) => Len(ser[p]) = raw.shape[1])
    /\ [][\A p \in Pipes :
            /\ (pc[p] = "indexed" /\ pc'[p] = "failed")
                  => (err'[p] # "none" /\ windspeed_100' = windspeed_100)
            /\ pc[p] = "failed" => (pc'[p] = "failed" /\ err'[p] = err[p])]_vars

\* a pipeline whose site index is valid ended with the store's error while
\* the other pipeline was served
C21_Witness ==
    \E p, q \in Pipes :
        /\ pc[p] = "failed"
        /\ err[p] = "OSError"
        /\ POI_indx[p] \in 0..(NSites - 1)
        /\ pc[q] = "done"
        /\ Len(ser[q]) = Len(time_index)

\* C22: the spatial index is built once per loaded coordinate array: over
\* any sequence of nearest_site calls and multiple_site_index batches on the
\* same array, only the first call constructs a tree, and it constructs one.
C22_IndexBuiltOnce ==
    [][ret'.built <= (IF ret.op = "none" THEN 1 ELSE 0)]_vars

-----------------------------------------------------------------------------
(* C24 *)

\* a one-row dataset over the sites of coords: the column of the site in row
\* j of the coordinate table holds j
SiteColumns(n) ==
    [data |-> << [j \in 1..n |-> j] >>, shape |-> <<1, n>>, scale_factor |-> 1]

\* C24: on a non-empty array of n sites the index nearest_site returns lies
\* in 0..n-1, and h5_extractor given that index reads, without error, the
\* column of the very site the index stands for in the coordinate table
C24_IndexDenotesColumn ==
    (ret.op = "nearest_site" /\ NSites > 0) =>
        LET pos  == ret.out[1]
            read == h5_extractor(SiteColumns(NSites), pos, TRUE)
        IN  /\ pos \in 0..(NSites - 1)
            /\ read.err = "none"
            /\ read.val = << Rat(pos + 1, 1) >>

\* a lookup on a table split over several leaves that returns a site other
\* than the first
C24_Witness ==
    /\ ret.op = "nearest_site"
    /\ NSites > LeafSize
    /\ ret.out[1] > 0
    /\ h5_extractor(SiteColumns(NSites), ret.out[1], TRUE).val
          = << Rat(ret.out[1] + 1, 1) >>

-----------------------------------------------------------------------------
(* C25 *)

\* the number of samples of the frame of pipeline p behind row g of its table
GroupSize(p, g) ==
    Cardinality(SamplesOf(df[p].rows, CalKey(table[p].rows[g], period[p]),
                          period[p]))

\* C25: on a gapless hourly year (8784 samples in a leap year, 8760 in a
\* common year) resolution 'hour' yields 12 * 24 = 288 rows and the group of
\* (month, hour) holds as many samples as the month has days (29 for
\* February of a leap year, 28 otherwise); resolution 'day' yields one row per
\* day of the year (366 or 365), each over exactly 24 samples.
C25_HourlyYearCounts ==
    \A p \in Pipes : \A y \in Years :
        (pc[p] = "done" /\ time_index = HourlyYear(y))
        => /\ Len(df[p].rows) = 24 * DaysInYear(y)
           /\ period[p] = "hour" =>
                 /\ Len(table[p].rows) = 288
                 /\ \A g \in 1..Len(table[p].rows) :
                       GroupSize(p, g) = DaysInMonth(y, table[p].rows[g].month)
           /\ period[p] = "day" =>
                 /\ Len(table[p].rows) = DaysInYear(y)
                 /\ \A g \in 1..Len(table[p].rows) : GroupSize(p, g) = 24

-----------------------------------------------------------------------------
(* C26 *)

\* the frame of pipeline p as windspeed_point_df_maker makes it anew
FreshFrame(p) ==
    [kind |-> "frame",
     rows |-> windspeed_point_df_maker(time_index, coords, ser[p], POI_indx[p],
                                       windspeed_100.val).rows]

\* C26: time_subset with a valid period leaves the decorated frame as it
\* was (same rows, same columns, no date column added): a call for 'hour',
\* 'day' or 'month' does not change the frame, so after any sequence of
\* calls the frame still equals a freshly made one and the table of the
\* last call is the table that call yields on the fresh frame.
C26_FrameUnchanged ==
    /\ [](\A p \in Pipes :
            (pc[p] = "done" /\ period[p] \in AllowedPeriods)
            => /\ df[p] = FreshFrame(p)
               /\ table[p] = time_subset(period[p], FreshFrame(p)).df)
    /\ [][\A p \in Pipes :
            (pc[p] \in {"decorated", "done"} /\ period'[p] \in AllowedPeriods)
            => df'[p] = df[p]]_vars

\* a 'day' table with its date column, made from a frame of more samples
\* than days that has no such column itself
C26_Witness ==
    \E p \in Pipes :
        /\ pc[p] = "done"
        /\ period[p] = "day"
        /\ Len(table[p].rows) > 0
        /\ Len(df[p].rows) > Len(table[p].rows)
        /\ "date" \in DOMAIN table[p].rows[1]
        /\ "date" \notin DOMAIN df[p].rows[1]

-----------------------------------------------------------------------------
(* C27 *)

\* the groups (sets of row positions) that grouping the rows on the calendar
\* key alone yields
CalendarGroups(rows, per) ==
    {SamplesOf(rows, CalKey(rows[k], per), per) : k \in 1..Len(rows)}

\* the groups that the grouping of time_subset, on the calendar key and the
\* avg_windspeed column, yields
KeyedGroups(rows, per) ==
    LET gs == Groups(rows, per) IN {gs[g].members : g \in 1..Len(gs)}

\* C27: for every non-empty decorated series and each valid period, grouping
\* on the calendar key together with avg_windspeed yields exactly the groups
\* that grouping on the calendar key alone yields: the extra key column
\* splits no group and drops none, and the table has one row per group.
C27_AvgKeyKeepsGroups ==
    \A p \in Pipes :
        (pc[p] = "done" /\ period[p] \in AllowedPeriods /\ Len(df[p].rows) > 0)
        => /\ KeyedGroups(df[p].rows, period[p])
                = CalendarGroups(df[p].rows, period[p])
           /\ Len(table[p].rows)
                = Cardinality(CalendarGroups(df[p].rows, period[p]))

-----------------------------------------------------------------------------
(* C28 *)

\* lexicographic order on calendar keys of the same length
RECURSIVE LexLess(_, _)
LexLess(a, b) ==
    IF a = <<>> THEN FALSE
    ELSE \/ a[1] < b[1]
         \/ a[1] = b[1] /\ LexLess(Tail(a), Tail(b))

\* C28: for each valid period the rows of the table are in strictly
\* ascending lexicographic order of the calendar key ((year, month, hour),
\* (year, month, day) or (month)), so no key occurs twice, in whatever
\* order the keys occur in the rows of the frame.
C28_RowsAscending ==
    \A p \in Pipes :
        (pc[p] = "done" /\ period[p] \in AllowedPeriods)
        => \A g \in 1..(Len(table[p].rows) - 1) :
              LexLess(CalKey(table[p].rows[g], period[p]),
                      CalKey(table[p].rows[g + 1], period[p]))

\* a table of several rows whose first row is not for the key of the first
\* row of the frame: the frame's keys do not come in ascending order
C28_Witness ==
    \E p \in Pipes :
        /\ pc[p] = "done"
        /\ period[p] \in AllowedPeriods
        /\ Len(table[p].rows) > 1
        /\ CalKey(table[p].rows[1], period[p]) # CalKey(df[p].rows[1], period[p])
        /\ LexLess(CalKey(table[p].rows[1], period[p]),
                   CalKey(table[p].rows[2], period[p]))

-----------------------------------------------------------------------------
(* C29 *)

BatchOps == {"multiple_site_index", "multiple_site_index_archive"}

\* C29: a call of multiple_site_index, whether it returns or fails part-way,
\* changes nothing of coord_array and changes of POI_df only the column
\* labels, which it renames in place to 'lat', 'lon': the rows, their order
\* and the index of POI_df are the same after the call as before, and the
\* caller's frame carries the new labels afterwards.
C29_OnlyLabelsRenamed ==
    /\ [](ret.op \in BatchOps => POI_df.columns = <<"lat", "lon">>)
    /\ [][ret'.op \in BatchOps =>
            /\ coords' = coords
            /\ POI_df'.rows = POI_df.rows
            /\ POI_df'.index = POI_df.index
            /\ POI_df'.columns = <<"lat", "lon">>]_vars

\* a call on a batch of two points that failed part-way and left the frame
\* relabelled, with its two rows and its index 0, 1
C29_Witness ==
    /\ ret.op = "multiple_site_index"
    /\ ret.err # "none"
    /\ POI_df.columns = <<"lat", "lon">>
    /\ POI_df.rows = <<BatchRow(1), BatchRow(2)>>
    /\ POI_df.index = <<0, 1>>
    /\ NSites > 0


====
